---- MODULE Spec2Model ----
(***************************************************************************)
(* Model of the two tools of the repository:                               *)
(*   src/Azure/upn_generator.py  (parse_full_name, generate_upn_...)        *)
(*   src/wl_generator.py         (generate_usernames, generate_passwords,   *)
(*                                the interactive main)                     *)
(* A Python str is a sequence of one-character strings, so that strip,      *)
(* split, lower, capitalize and the f-strings are computed character by     *)
(* character.                                                               *)
(***************************************************************************)
EXTENDS Integers, Sequences, FiniteSets, TLC

VARIABLES
    \* upn_generator.main
    upn_pc,         \* position in main
    args_user,      \* --user
    args_domain,    \* --domain
    first_name,     \* parse_full_name's result, as main unpacks it
    middle_names,
    last_name,
    upn_error,      \* the ValueError message, "" when none was raised
    upns,           \* generate_upn_combinations' return value (a sorted list)
    \* wl_generator's two generators, called on a list of strings
    fn_pc,          \* "start", "usernames" or "passwords": which one has returned
    fn_input,       \* the names or keywords passed
    fn_result,      \* the sorted list returned
    \* wl_generator.main
    wl_pc,          \* position in main
    generate_users, \* line 60
    append_to_file, \* line 96
    usernames,      \* line 69
    passwords,      \* line 88
    file_path,      \* line 99
    files,          \* the file system: path -> [exists, data]
    opened,         \* the open() calls that succeeded, in order: <<path, mode>>
    unopenable      \* the paths open() raises for

upn_vars == <<upn_pc, args_user, args_domain, first_name, middle_names, last_name,
              upn_error, upns>>

fn_vars == <<fn_pc, fn_input, fn_result>>

wl_vars == <<wl_pc, generate_users, append_to_file, usernames, passwords, file_path, files, opened,
             unopenable>>

vars == <<upn_vars, fn_vars, wl_vars>>

(***************************************************************************)
(* Characters and str methods                                              *)
(***************************************************************************)
Lowercase == <<"a","b","c","d","e","f","g","h","i","j","k","l","m",
               "n","o","p","q","r","s","t","u","v","w","x","y","z">>
Uppercase == <<"A","B","C","D","E","F","G","H","I","J","K","L","M",
               "N","O","P","Q","R","S","T","U","V","W","X","Y","Z">>

\* The characters of the model in code point order (ASCII 9..126, those used).
CodePoints == <<"\t","\n"," ","!","#","$","%","&","'","*","-",".",
                "0","1","2","3","4","5","6","7","8","9","?","@">>
              \o Uppercase \o <<"^","_">> \o Lowercase

Range(s) == {s[i] : i \in DOMAIN s}

Ord == [c \in Range(CodePoints) |-> CHOOSE i \in DOMAIN CodePoints : CodePoints[i] = c]

LowerOf == [c \in Range(CodePoints) |->
              IF \E i \in DOMAIN Uppercase : Uppercase[i] = c
              THEN Lowercase[CHOOSE i \in DOMAIN Uppercase : Uppercase[i] = c]
              ELSE c]

UpperOf == [c \in Range(CodePoints) |->
              IF \E i \in DOMAIN Lowercase : Lowercase[i] = c
              THEN Uppercase[CHOOSE i \in DOMAIN Lowercase : Lowercase[i] = c]
              ELSE c]

isalpha(c) == c \in Range(Lowercase) \cup Range(Uppercase)

isspace(c) == c \in {" ", "\t", "\n"}

lower(s) == [i \in DOMAIN s |-> LowerOf[s[i]]]

upper(s) == [i \in DOMAIN s |-> UpperOf[s[i]]]

RECURSIVE lstrip(_)
lstrip(s) == IF s # <<>> /\ isspace(s[1]) THEN lstrip(Tail(s)) ELSE s

RECURSIVE rstrip(_)
rstrip(s) == IF s # <<>> /\ isspace(s[Len(s)])
             THEN rstrip(SubSeq(s, 1, Len(s) - 1)) ELSE s

strip(s) == rstrip(lstrip(s))

\* str.split() without argument: the maximal runs of non-whitespace, in order.
RECURSIVE split(_)
split(s) ==
    LET t == lstrip(s)
        n == IF \E i \in DOMAIN t : isspace(t[i])
             THEN (CHOOSE i \in DOMAIN t :
                      isspace(t[i]) /\ \A j \in 1..(i - 1) : ~isspace(t[j])) - 1
             ELSE Len(t)
    IN  IF t = <<>> THEN <<>>
        ELSE <<SubSeq(t, 1, n)>> \o split(SubSeq(t, n + 1, Len(t)))

\* ''.join(seq of str)
RECURSIVE concat(_)
concat(ss) == IF ss = <<>> THEN <<>> ELSE ss[1] \o concat(Tail(ss))

\* sep.join(seq of str)
RECURSIVE join(_, _)
join(sep, ss) == IF ss = <<>> THEN <<>>
                 ELSE IF Len(ss) = 1 THEN ss[1]
                 ELSE ss[1] \o sep \o join(sep, Tail(ss))

\* str < str: code point order, a proper prefix first.
RECURSIVE StrLess(_, _)
StrLess(a, b) ==
    IF b = <<>> THEN FALSE
    ELSE IF a = <<>> THEN TRUE
    ELSE IF a[1] # b[1] THEN Ord[a[1]] < Ord[b[1]]
    ELSE StrLess(Tail(a), Tail(b))

\* sorted(list(a_set))
RECURSIVE sorted(_)
sorted(S) ==
    IF S = {} THEN <<>>
    ELSE LET p == CHOOSE x \in S : TRUE
         IN  sorted({y \in S : StrLess(y, p)}) \o <<p>>
             \o sorted({y \in S : StrLess(p, y)})

(***************************************************************************)
(* upn_generator.py                                                        *)
(***************************************************************************)
\* A mutant: digits survive cleaning (isalnum for isalpha).
clean_name_part_alnum(name_part) ==
    LET keep == SelectSeq(name_part,
                    LAMBDA c : isalpha(c) \/ isspace(c)
                               \/ c \in {"0","1","2","3","4","5","6","7","8","9"})
    IN  lower(strip(keep))

\* A mutant: a part holding any character that is not a letter is rejected whole.
clean_name_part_reject(name_part) ==
    IF \E i \in DOMAIN name_part : ~isalpha(name_part[i])
    THEN <<>>
    ELSE lower(strip(name_part))

clean_name_part(name_part) ==
    LET cleaned == SelectSeq(name_part, LAMBDA c : isalpha(c) \/ isspace(c))
    IN  lower(strip(cleaned))

name_parts_of(full_name) ==
    LET parts == split(full_name)
    IN  SelectSeq([i \in DOMAIN parts |-> strip(parts[i])], LAMBDA p : p # <<>>)

cleaned_parts_of(name_parts) ==
    SelectSeq([i \in DOMAIN name_parts |-> clean_name_part(name_parts[i])],
              LAMBDA p : p # <<>>)

NoError == ""
ErrNoParts == "No valid name parts found"
ErrNoPartsAfterCleaning == "No valid name parts found after cleaning"

\* A mutant: the last name is taken even when one part is all there is.
parse_full_name_last_always(full_name) ==
    LET name_parts == name_parts_of(full_name)
        cleaned_parts == cleaned_parts_of(name_parts)
        n == Len(cleaned_parts)
    IN  IF name_parts = <<>>
        THEN [raised |-> ErrNoParts, first |-> <<>>, middles |-> <<>>, last |-> <<>>]
        ELSE IF cleaned_parts = <<>>
        THEN [raised |-> ErrNoPartsAfterCleaning,
              first |-> <<>>, middles |-> <<>>, last |-> <<>>]
        ELSE [raised |-> NoError,
              first |-> cleaned_parts[1],
              middles |-> IF n > 2 THEN SubSeq(cleaned_parts, 2, n - 1) ELSE <<>>,
              last |-> cleaned_parts[n]]

\* Either the ValueError raised or the tuple returned.
parse_full_name(full_name) ==
    LET name_parts == name_parts_of(full_name)
        cleaned_parts == cleaned_parts_of(name_parts)
        n == Len(cleaned_parts)
    IN  IF name_parts = <<>>
        THEN [raised |-> ErrNoParts, first |-> <<>>, middles |-> <<>>, last |-> <<>>]
        ELSE IF cleaned_parts = <<>>
        THEN [raised |-> ErrNoPartsAfterCleaning,
              first |-> <<>>, middles |-> <<>>, last |-> <<>>]
        ELSE [raised |-> NoError,
              first |-> cleaned_parts[1],
              middles |-> IF n > 2 THEN SubSeq(cleaned_parts, 2, n - 1) ELSE <<>>,
              last |-> IF n > 1 THEN cleaned_parts[n] ELSE <<>>]

\* f"{local}@{domain}"; a mutant that normalises the domain on the way.
upn_normalised(local, domain) == local \o <<"@">> \o lower(strip(domain))

upn(local, domain) == local \o <<"@">> \o domain

all_names_of(first, middles, last) ==
    <<first>> \o middles \o (IF last # <<>> THEN <<last>> ELSE <<>>)

\* Lines 48-50.
SingleNamePatterns(all_names, domain) ==
    {upn(all_names[i], domain) : i \in {k \in DOMAIN all_names : all_names[k] # <<>>}}

\* itertools.combinations(all_names, 2) and (all_names, 3), as index tuples.
Combinations2(n) == {c \in (1..n) \X (1..n) : c[1] < c[2]}

Combinations3(n) == {c \in (1..n) \X (1..n) \X (1..n) : c[1] < c[2] /\ c[2] < c[3]}

Separators == {<<>>, <<".">>, <<"_">>, <<"-">>}

\* Lines 53-66.
TwoNameCombinations(all_names, domain) ==
    IF Len(all_names) >= 2
    THEN UNION {
           LET name1 == all_names[c[1]]
               name2 == all_names[c[2]]
           IN  {upn(name1 \o sep \o name2, domain) : sep \in Separators}
               \cup {upn(name2 \o sep \o name1, domain) : sep \in Separators}
           : c \in Combinations2(Len(all_names))}
    ELSE {}

\* Lines 69-80.
ThreeNameCombinations(all_names, domain) ==
    IF Len(all_names) >= 3
    THEN UNION {
           LET name1 == all_names[c[1]]
               name2 == all_names[c[2]]
               name3 == all_names[c[3]]
           IN  {upn(name1 \o sep \o name2 \o sep \o name3, domain) : sep \in Separators}
               \cup {upn(name1 \o <<".">> \o name2 \o name3, domain),
                     upn(name1 \o name2 \o <<".">> \o name3, domain)}
           : c \in Combinations3(Len(all_names))}
    ELSE {}

\* Lines 83-99.
InitialPlusName(all_names, domain) ==
    UNION {
      LET initial == <<all_names[p[1]][1]>>
          other_name == all_names[p[2]]
      IN  {upn(initial \o sep \o other_name, domain) : sep \in Separators}
          \cup {upn(other_name \o sep \o initial, domain) : sep \in Separators}
      : p \in {q \in (DOMAIN all_names) \X (DOMAIN all_names) :
                 /\ all_names[q[1]] # <<>>
                 /\ q[1] # q[2]
                 /\ all_names[q[2]] # <<>>}}

\* Line 106.
other_names_of(all_names, k) ==
    SelectSeq(all_names, LAMBDA n : n # all_names[k])

\* Lines 102-118. n[0] of an empty name raises IndexError: no such name reaches
\* this rule from parse_full_name.
MultipleInitialsPlusName(all_names, domain) ==
    IF Len(all_names) >= 2
    THEN UNION {
           LET main_name == all_names[k]
               other_names == other_names_of(all_names, k)
               initials == [i \in DOMAIN other_names |-> other_names[i][1]]
           IN  IF other_names # <<>>
               THEN {upn(initials \o sep \o main_name, domain) : sep \in Separators}
                    \cup {upn(main_name \o sep \o initials, domain) : sep \in Separators}
               ELSE {}
           : k \in {i \in DOMAIN all_names : all_names[i] # <<>>}}
    ELSE {}

\* Lines 121-124.
AllInitials(all_names, domain) ==
    LET named == SelectSeq(all_names, LAMBDA n : n # <<>>)
        all_initials == [i \in DOMAIN named |-> named[i][1]]
    IN  IF Len(all_names) >= 2 /\ Len(all_initials) >= 2
        THEN {upn(all_initials, domain)}
        ELSE {}

\* Lines 135-140.
common_patterns(first, last) ==
    << IF last # <<>> THEN first \o last ELSE first,
       IF last # <<>> THEN first \o <<".">> \o last ELSE first,
       IF last # <<>> THEN <<first[1]>> \o last ELSE first,
       IF last # <<>> THEN first \o <<last[1]>> ELSE first >>

\* str(num) for num in range(1, 10), and the range a mutant stops one short.
Digits == <<"0","1","2","3","4","5","6","7","8","9">>

NumberRangeShort == {<<Digits[num + 1]>> : num \in 1..8}

NumberRange == {<<Digits[num + 1]>> : num \in 1..9}

CommonSuffixes == {<<"0","1">>, <<"0","2">>, <<"0","3">>,
                   <<"2","0","2","4">>, <<"2","0","2","5">>}

\* Lines 142-149.
NumberedVariations(first, last, domain) ==
    LET patterns == common_patterns(first, last)
    IN  UNION {
          IF patterns[i] # <<>>
          THEN {upn(patterns[i] \o s, domain) : s \in NumberRange \cup CommonSuffixes}
          ELSE {}
          : i \in DOMAIN patterns}

generate_upn_combinations(first, middles, last, domain) ==
    LET all_names == all_names_of(first, middles, last)
    IN  sorted(SingleNamePatterns(all_names, domain)
               \cup TwoNameCombinations(all_names, domain)
               \cup ThreeNameCombinations(all_names, domain)
               \cup InitialPlusName(all_names, domain)
               \cup MultipleInitialsPlusName(all_names, domain)
               \cup AllInitials(all_names, domain)
               \cup NumberedVariations(first, last, domain))

\* Indexing an empty str raises IndexError: n[0] on line 108, reached for a
\* non-empty main name beside an empty one, and first_name[0] on line 138.
raises_index_error(first, middles, last) ==
    LET all_names == all_names_of(first, middles, last)
    IN  \/ /\ Len(all_names) >= 2
           /\ \E k \in DOMAIN all_names :
                 /\ all_names[k] # <<>>
                 /\ <<>> \in Range(other_names_of(all_names, k))
        \/ last # <<>> /\ first = <<>>

\* A call of generate_upn_combinations: the IndexError raised or the list
\* returned.
call_generate_upn_combinations(first, middles, last, domain) ==
    IF raises_index_error(first, middles, last)
    THEN [raised |-> "IndexError", upns |-> <<>>]
    ELSE [raised |-> NoError,
          upns |-> generate_upn_combinations(first, middles, last, domain)]

(***************************************************************************)
(* upn_generator.main: parse, generate, print; exit 1 on an exception.     *)
(* generate_upn_combinations is also called on components of the caller's  *)
(* choosing.                                                               *)
(***************************************************************************)
MaxTokens == 3

MaxMiddles == 1

Tokens == { <<"J","o","h","n">>, <<"3","r","d">>, <<"S","m","i","t","h">>,
            <<"1","2","3">> }

\* Command lines: up to MaxTokens tokens separated by one space, and some
\* with other whitespace around and between the tokens.
UserInputs ==
    {join(<<" ">>, ts) : ts \in UNION {[1..n -> Tokens] : n \in 0..MaxTokens}}
    \cup { <<" "," ","\t">>,
           <<" ","J","o","h","n","\t"," ","S","m","i","t","h"," ">>,
           <<"1","2","3"," ","4","5","6">>,
           <<"O","'","N","e","i","l">> }

DomainInputs == { <<"c","o","r","p",".","c","o","m">>, <<" ","A","@","b"," ">> }

\* Each tool is a process of its own: under the specification of one tool the
\* variables of the others stay as these leave them.
UpnIdle ==
    /\ upn_pc = "off"
    /\ args_user = <<>>
    /\ args_domain = <<>>
    /\ first_name = <<>>
    /\ middle_names = <<>>
    /\ last_name = <<>>
    /\ upn_error = ""
    /\ upns = <<>>

FnIdle ==
    /\ fn_pc = "off"
    /\ fn_input = <<>>
    /\ fn_result = <<>>

WlIdle ==
    /\ wl_pc = "off"
    /\ generate_users = FALSE
    /\ append_to_file = FALSE
    /\ usernames = <<>>
    /\ passwords = <<>>
    /\ file_path = ""
    /\ files = <<>>
    /\ opened = <<>>
    /\ unopenable = {}

\* Components passed by a caller: a non-empty first name, middle names and a
\* last name that may be empty.
FirstNames == { <<"j","o","h","n">>, <<"a">> }

MiddleNames == { <<>>, <<"j","o","h","n">> }

MiddleLists == UNION {[1..n -> MiddleNames] : n \in 0..MaxMiddles}

LastNames == { <<>>, <<"s","m","i","t","h">>, <<"j","o","h","n">> }

UpnInit ==
    /\ FnIdle
    /\ WlIdle
    /\ args_domain \in DomainInputs
    /\ upn_error = NoError
    /\ upns = <<>>
    /\ \/ /\ upn_pc = "start"
          /\ args_user \in UserInputs
          /\ first_name = <<>>
          /\ middle_names = <<>>
          /\ last_name = <<>>
       \/ /\ upn_pc = "called"
          /\ args_user = <<>>
          /\ first_name \in FirstNames
          /\ middle_names \in MiddleLists
          /\ last_name \in LastNames

\* Lines 177-179 and 205-207.
UpnParse ==
    /\ upn_pc = "start"
    /\ LET r == parse_full_name(args_user)
       IN  /\ upn_error' = r.raised
           /\ first_name' = r.first
           /\ middle_names' = r.middles
           /\ last_name' = r.last
           /\ upn_pc' = IF r.raised = NoError THEN "parsed" ELSE "exit1"
    /\ UNCHANGED <<args_user, args_domain, upns, fn_vars, wl_vars>>

\* Lines 190-196 and 208-210.
UpnGenerate ==
    /\ upn_pc = "parsed"
    /\ LET r == call_generate_upn_combinations(first_name, middle_names, last_name,
                                               args_domain)
       IN  /\ upns' = r.upns
           /\ upn_error' = r.raised
           /\ upn_pc' = IF r.raised = NoError THEN "exit0" ELSE "exit1"
    /\ UNCHANGED <<args_user, args_domain, first_name, middle_names, last_name,
                   fn_vars, wl_vars>>

\* Lines 40-151, called directly.
UpnCall ==
    /\ upn_pc = "called"
    /\ LET r == call_generate_upn_combinations(first_name, middle_names, last_name,
                                               args_domain)
       IN  /\ upns' = r.upns
           /\ upn_error' = r.raised
           /\ upn_pc' = IF r.raised = NoError THEN "returned" ELSE "raised"
    /\ UNCHANGED <<args_user, args_domain, first_name, middle_names, last_name,
                   fn_vars, wl_vars>>

UpnNext == UpnParse \/ UpnGenerate \/ UpnCall

SpecUpn == UpnInit /\ [][UpnNext]_vars

(***************************************************************************)
(* wl_generator.py: generate_usernames and generate_passwords              *)
(***************************************************************************)
\* Lines 12-25, one iteration; a mutant takes the second part for the last.
usernames_of_second_part(raw) ==
    LET name == strip(raw)
    IN  IF \E i \in DOMAIN name : name[i] = " "
        THEN LET parts == split(name)
                 first == lower(parts[1])
                 last == lower(parts[2])
             IN  { <<first[1]>> \o last,
                   <<last[1]>> \o first,
                   first \o <<".">> \o last,
                   first,
                   last }
        ELSE {lower(name)}

usernames_of(raw) ==
    LET name == strip(raw)
    IN  IF \E i \in DOMAIN name : name[i] = " "
        THEN LET parts == split(name)
                 first == lower(parts[1])
                 last == lower(parts[Len(parts)])
             IN  { <<first[1]>> \o last,
                   <<last[1]>> \o first,
                   first \o <<".">> \o last,
                   first,
                   last }
        ELSE {lower(name)}

generate_usernames(names) ==
    sorted(UNION {usernames_of(names[i]) : i \in DOMAIN names})

\* str.capitalize(): the first character uppercased, the rest lowercased; a
\* mutant leaves the rest as given.
capitalize_first_only(s) ==
    IF s = <<>> THEN <<>> ELSE <<UpperOf[s[1]]>> \o Tail(s)

capitalize(s) ==
    IF s = <<>> THEN <<>> ELSE <<UpperOf[s[1]]>> \o lower(Tail(s))

\* str.replace(old, new) for one-character old and new.
replace(s, old, new) == [i \in DOMAIN s |-> IF s[i] = old THEN new ELSE s[i]]

PasswordSuffixes == {"!", "^", "?", "&", "*", "#", "%", "@"}

\* Lines 34-52, one iteration.
passwords_of(raw) ==
    LET keyword == strip(raw)
    IN  { keyword, lower(keyword), upper(keyword), capitalize(keyword),
          replace(keyword, "a", "@"),
          replace(keyword, "o", "0"),
          replace(keyword, "e", "3"),
          replace(keyword, "s", "$"),
          replace(keyword, "i", "1") }
        \cup {keyword \o <<suffix>> : suffix \in PasswordSuffixes}
        \cup {capitalize(keyword) \o <<suffix>> : suffix \in PasswordSuffixes}

generate_passwords(keywords) ==
    sorted(UNION {passwords_of(keywords[i]) : i \in DOMAIN keywords})

(***************************************************************************)
(* The two generators called on any list of strings.                       *)
(***************************************************************************)
MaxEntries == 2

Entries == { <<"J","o","h","n"," ","S","m","i","t","h">>,
             <<" ","A","n","n"," "," ","M","a","r","y","\t","L","e","e"," ">>,
             <<"m","c","A","f","e","e">>,
             <<"a","\t","B">>,
             <<>>,
             <<" ","\t">> }

EntryLists == UNION {[1..n -> Entries] : n \in 0..MaxEntries}

FnInit ==
    /\ UpnIdle
    /\ WlIdle
    /\ fn_pc = "start"
    /\ fn_input \in EntryLists
    /\ fn_result = <<>>

CallGenerateUsernames ==
    /\ fn_pc = "start"
    /\ fn_result' = generate_usernames(fn_input)
    /\ fn_pc' = "usernames"
    /\ UNCHANGED <<fn_input, upn_vars, wl_vars>>

CallGeneratePasswords ==
    /\ fn_pc = "start"
    /\ fn_result' = generate_passwords(fn_input)
    /\ fn_pc' = "passwords"
    /\ UNCHANGED <<fn_input, upn_vars, wl_vars>>

FnNext == CallGenerateUsernames \/ CallGeneratePasswords

SpecFn == FnInit /\ [][FnNext]_vars

(***************************************************************************)
(* wl_generator.main: the prompts, the two generators, the files written.  *)
(* The print calls are left out: nothing reads what they write.            *)
(***************************************************************************)
\* str.split(','): the pieces between the commas, empty ones included.
RECURSIVE split_on(_, _)
split_on(s, sep) ==
    IF \E i \in DOMAIN s : s[i] = sep
    THEN LET n == CHOOSE i \in DOMAIN s : s[i] = sep /\ \A j \in 1..(i - 1) : s[j] # sep
         IN  <<SubSeq(s, 1, n - 1)>> \o split_on(SubSeq(s, n + 1, Len(s)), sep)
    ELSE <<s>>

\* Lines 66 and 85: [x.strip() for x in line.split(',') if x.strip()]
comma_list(line) ==
    LET pieces == split_on(line, ",")
    IN  SelectSeq([i \in DOMAIN pieces |-> strip(pieces[i])], LAMBDA x : x # <<>>)

\* Lines 60 and 96: input(...).lower().startswith('y')
says_yes(answer) == lower(answer) # <<>> /\ lower(answer)[1] = "y"

Paths == {"usernames.txt", "passwords.txt", "wordlist.txt", "new.txt", "/nodir/list.txt"}

NoFile == [exists |-> FALSE, data |-> <<>>]

\* The files before the run: an older passwords.txt and a wordlist.
InitialFiles ==
    [p \in Paths |->
        IF p = "passwords.txt" THEN [exists |-> TRUE, data |-> <<"o","l","d">>]
        ELSE IF p = "wordlist.txt" THEN [exists |-> TRUE, data |-> <<"w","1","\n","w","2">>]
        ELSE NoFile]

\* The environments of the run: the paths open() raises for. The two files
\* main writes in its working directory are taken to be writable.
Environments == SUBSET {"wordlist.txt", "/nodir/list.txt"}

\* with open(path, 'w') as f: f.write(data)
write_file(fs, path, data) == [fs EXCEPT ![path] = [exists |-> TRUE, data |-> data]]

\* with open(path, 'a') as f: f.write(data)
append_file(fs, path, data) ==
    [fs EXCEPT ![path] = [exists |-> TRUE, data |-> fs[path].data \o data]]

\* A mutant of lines 98-113: the append failure is not caught.
save_passwords_uncaught(append, path, pws, fs, log, bad) ==
    LET text == join(<<"\n">>, pws)
        overwrite ==
            IF "passwords.txt" \in bad
            THEN [files |-> fs, opened |-> log, raised |-> TRUE]
            ELSE [files |-> write_file(fs, "passwords.txt", text),
                  opened |-> Append(log, <<"passwords.txt", "w">>),
                  raised |-> FALSE]
    IN  IF append
        THEN IF path \in bad
             THEN [files |-> fs, opened |-> log, raised |-> TRUE]
             ELSE [files |-> append_file(fs, path, <<"\n">> \o text),
                   opened |-> Append(log, <<path, "a">>),
                   raised |-> FALSE]
        ELSE overwrite

\* Lines 98-113: the files and the successful opens after the passwords are
\* saved, and whether an exception left main.
save_passwords(append, path, pws, fs, log, bad) ==
    LET text == join(<<"\n">>, pws)
        overwrite ==
            IF "passwords.txt" \in bad
            THEN [files |-> fs, opened |-> log, raised |-> TRUE]
            ELSE [files |-> write_file(fs, "passwords.txt", text),
                  opened |-> Append(log, <<"passwords.txt", "w">>),
                  raised |-> FALSE]
    IN  IF append
        THEN IF path \in bad
             THEN overwrite
             ELSE [files |-> append_file(fs, path, <<"\n">> \o text),
                   opened |-> Append(log, <<path, "a">>),
                   raised |-> FALSE]
        ELSE overwrite

YesNoAnswers == { <<"y">>, <<"Y","e","s">>, <<"n">>, <<>> }

NameLines == { <<"J","o","h","n"," ","S","m","i","t","h",","," ","a","d","m","i","n">>,
               <<"A","n","n"," ","L","e","e">>,
               <<" ",","," ">> }

KeywordLines == { <<"m","c","A","f","e","e">>,
                  <<"s","p","r","i","n","g",","," ",",","R","o","s","e">>,
                  <<" ",",">> }

WlInit ==
    /\ UpnIdle
    /\ FnIdle
    /\ wl_pc = "ask_users"
    /\ generate_users = FALSE
    /\ append_to_file = FALSE
    /\ usernames = <<>>
    /\ passwords = <<>>
    /\ file_path = ""
    /\ files = InitialFiles
    /\ opened = <<>>
    /\ unopenable \in Environments

\* Line 60.
AskGenerateUsers ==
    /\ wl_pc = "ask_users"
    /\ \E answer \in YesNoAnswers :
          /\ generate_users' = says_yes(answer)
          /\ wl_pc' = IF says_yes(answer) THEN "enter_names" ELSE "enter_keywords"
    /\ UNCHANGED <<append_to_file, usernames, passwords, file_path, files, opened,
                   unopenable, upn_vars, fn_vars>>

\* Lines 62-79.
EnterNames ==
    /\ wl_pc = "enter_names"
    /\ \E name_input \in NameLines :
          LET names == comma_list(name_input)
          IN  IF names = <<>>
              THEN /\ wl_pc' = "enter_keywords"
                   /\ UNCHANGED <<usernames, files, opened>>
              ELSE /\ usernames' = generate_usernames(names)
                   /\ IF "usernames.txt" \in unopenable
                      THEN /\ wl_pc' = "traceback"
                           /\ UNCHANGED <<files, opened>>
                      ELSE /\ wl_pc' = "enter_keywords"
                           /\ files' = write_file(files, "usernames.txt",
                                                  join(<<"\n">>, usernames'))
                           /\ opened' = Append(opened, <<"usernames.txt", "w">>)
    /\ UNCHANGED <<generate_users, append_to_file, passwords, file_path, unopenable,
                   upn_vars, fn_vars>>

\* Lines 82-93.
EnterKeywords ==
    /\ wl_pc = "enter_keywords"
    /\ \E keyword_input \in KeywordLines :
          LET keywords == comma_list(keyword_input)
          IN  IF keywords = <<>>
              THEN /\ wl_pc' = "done"
                   /\ UNCHANGED passwords
              ELSE /\ passwords' = generate_passwords(keywords)
                   /\ wl_pc' = "ask_append"
    /\ UNCHANGED <<generate_users, append_to_file, usernames, file_path, files, opened,
                   unopenable, upn_vars, fn_vars>>

\* Lines 96-98 and 110-113.
AskAppend ==
    /\ wl_pc = "ask_append"
    /\ \E answer \in YesNoAnswers :
          /\ append_to_file' = says_yes(answer)
          /\ IF says_yes(answer)
             THEN /\ wl_pc' = "enter_path"
                  /\ UNCHANGED <<files, opened>>
             ELSE LET r == save_passwords(FALSE, file_path, passwords, files, opened,
                                          unopenable)
                  IN  /\ files' = r.files
                      /\ opened' = r.opened
                      /\ wl_pc' = IF r.raised THEN "traceback" ELSE "done"
    /\ UNCHANGED <<generate_users, usernames, passwords, file_path, unopenable,
                   upn_vars, fn_vars>>

\* Lines 99-109.
EnterPath ==
    /\ wl_pc = "enter_path"
    /\ \E path \in Paths :
          LET r == save_passwords(TRUE, path, passwords, files, opened, unopenable)
          IN  /\ file_path' = path
              /\ files' = r.files
              /\ opened' = r.opened
              /\ wl_pc' = IF r.raised THEN "traceback" ELSE "done"
    /\ UNCHANGED <<generate_users, append_to_file, usernames, passwords, unopenable,
                   upn_vars, fn_vars>>

WlNext == AskGenerateUsers \/ EnterNames \/ EnterKeywords \/ AskAppend \/ EnterPath

SpecWl == WlInit /\ [][WlNext]_vars

(***************************************************************************)
(* Properties of upn_generator.py, checked under SpecUpn                    *)
(***************************************************************************)
John3rdSmith == <<"J","o","h","n"," ","3","r","d"," ","S","m","i","t","h">>
john == <<"j","o","h","n">>
smith == <<"s","m","i","t","h">>

HasAlpha(t) == \E i \in DOMAIN t : isalpha(t[i])

ParseReturned == upn_pc \in {"parsed", "exit0"}

ParseRaised == upn_pc = "exit1"

\* The letters of each whitespace-separated token, lowercased; tokens without
\* a letter left out.
LettersOf(t) == lower(SelectSeq(t, isalpha))

CleanedTokens(s) ==
    SelectSeq([i \in DOMAIN split(s) |-> LettersOf(split(s)[i])], LAMBDA t : t # <<>>)

IsLowerAlpha(t) == \A i \in DOMAIN t : t[i] \in Range(Lowercase)

\* C1: parse_full_name raises the ValueError if and only if no
\* whitespace-separated token of the input holds an alphabetic character; then
\* no component is returned, and otherwise components are returned.
C1_ErrorIffNoAlphaToken ==
    upn_pc \in {"parsed", "exit0", "exit1"} =>
        /\ ParseRaised <=> (\A i \in DOMAIN split(args_user) : ~HasAlpha(split(args_user)[i]))
        /\ ParseRaised <=> upn_error \in {ErrNoParts, ErrNoPartsAfterCleaning}
        /\ ParseRaised => first_name = <<>> /\ middle_names = <<>> /\ last_name = <<>>
        /\ ParseReturned <=> upn_error = NoError
        /\ ParseReturned <=> first_name # <<>>

C1_Witness ==
    /\ upn_pc = "exit1"
    /\ args_user = <<"1","2","3"," ","4","5","6">>
    /\ upn_error = ErrNoPartsAfterCleaning

\* C2: on success, with c the cleaned non-empty tokens in input order,
\* first = c[0], last is non-empty iff len(c) >= 2 and is then c[-1], middles
\* are the tokens strictly between, and every component is lowercase letters.
C2_ComponentsFromCleanedTokens ==
    ParseReturned =>
        LET c == CleanedTokens(args_user)
        IN  /\ c # <<>>
            /\ first_name = c[1]
            /\ first_name # <<>>
            /\ last_name # <<>> <=> Len(c) >= 2
            /\ Len(c) >= 2 => last_name = c[Len(c)]
            /\ middle_names = SubSeq(c, 2, Len(c) - 1)
            /\ Len(c) <= 2 => middle_names = <<>>
            /\ IsLowerAlpha(first_name)
            /\ IsLowerAlpha(last_name)
            /\ \A i \in DOMAIN middle_names :
                   middle_names[i] # <<>> /\ IsLowerAlpha(middle_names[i])

C2_Witness ==
    /\ upn_pc = "parsed"
    /\ Len(middle_names) >= 1
    /\ last_name = smith

\* C3 as stated: "John 3rd Smith" parses to john, no middle name, smith, and a
\* token holding a digit or punctuation contributes no component.
C3_TokenWithDigitDropped ==
    ParseReturned =>
        /\ args_user = John3rdSmith =>
              first_name = john /\ middle_names = <<>> /\ last_name = smith
        /\ Len(all_names_of(first_name, middle_names, last_name))
              = Cardinality({i \in DOMAIN split(args_user) :
                                \A k \in DOMAIN split(args_user)[i] :
                                    isalpha(split(args_user)[i][k])})

\* C3 amended: "John 3rd Smith" parses to john, middle name rd, smith; a token
\* contributes no component exactly when it holds no letter, and a token that
\* holds letters among digits or punctuation contributes those letters.
C3_TokenKeepsItsLetters ==
    ParseReturned =>
        /\ args_user = John3rdSmith =>
              first_name = john /\ middle_names = << <<"r","d">> >> /\ last_name = smith
        /\ Len(all_names_of(first_name, middle_names, last_name))
              = Cardinality({i \in DOMAIN split(args_user) : HasAlpha(split(args_user)[i])})
        /\ args_user = <<"O","'","N","e","i","l">> =>
              first_name = <<"o","n","e","i","l">>

C3_Witness ==
    /\ upn_pc = "parsed"
    /\ args_user = John3rdSmith
    /\ middle_names = << <<"r","d">> >>

\* C4: for components with a non-empty first name, every UPN returned is a
\* non-empty local part, "@", and the input domain character for character.
C4_EveryUpnEndsWithDomain ==
    (upn_pc \in {"exit0", "returned"} /\ first_name # <<>>) =>
        \A i \in DOMAIN upns :
            LET u == upns[i]
                n == Len(u) - Len(args_domain)
            IN  /\ n >= 2
                /\ u[n] = "@"
                /\ SubSeq(u, n + 1, Len(u)) = args_domain

C4_Witness ==
    /\ upn_pc = "exit0"
    /\ args_domain = <<" ","A","@","b"," ">>
    /\ Len(middle_names) >= 1
    /\ Len(upns) > 15

SingleNameSuffixes ==
    { <<"1">>, <<"2">>, <<"3">>, <<"4">>, <<"5">>, <<"6">>, <<"7">>, <<"8">>, <<"9">>,
      <<"0","1">>, <<"0","2">>, <<"0","3">>, <<"2","0","2","4">>, <<"2","0","2","5">> }

\* C5: for a name of one alphabetic token n (first = n, no middle names, no
\* last name) the result is exactly the 15 candidates n@domain and
\* n+s@domain, s in 1..9, 01, 02, 03, 2024, 2025.
C5_SingleNameResult ==
    /\ (upn_pc = "exit0" /\ Len(CleanedTokens(args_user)) = 1) =>
           /\ first_name = CleanedTokens(args_user)[1]
           /\ middle_names = <<>>
           /\ last_name = <<>>
    /\ (upn_pc \in {"exit0", "returned"} /\ middle_names = <<>> /\ last_name = <<>>) =>
           /\ Len(upns) = 15
           /\ Range(upns) = {first_name \o <<"@">> \o args_domain}
                  \cup {first_name \o s \o <<"@">> \o args_domain : s \in SingleNameSuffixes}

C5_Witness ==
    /\ upn_pc = "exit0"
    /\ first_name = john
    /\ last_name = <<>>
    /\ Len(upns) = 15

InitialsOfOtherPositions(all_names, k) ==
    concat([i \in DOMAIN all_names |-> IF i # k THEN <<all_names[i][1]>> ELSE <<>>])

\* C10: with at least two components, for every component taken as main the
\* 8 local parts joining main with the first letters of the components at
\* all other positions are in the result, equal components included.
C10_InitialsOfAllOtherPositions ==
    upn_pc \in {"exit0", "returned"} =>
        LET all_names == all_names_of(first_name, middle_names, last_name)
        IN  Len(all_names) >= 2 =>
              \A k \in DOMAIN all_names : \A sep \in Separators :
                 LET initials == InitialsOfOtherPositions(all_names, k)
                 IN  /\ initials \o sep \o all_names[k] \o <<"@">> \o args_domain
                           \in Range(upns)
                     /\ all_names[k] \o sep \o initials \o <<"@">> \o args_domain
                           \in Range(upns)

(***************************************************************************)
(* Properties of the two generators of wl_generator.py, checked under      *)
(* SpecFn                                                                  *)
(***************************************************************************)
mcAfee == <<"m","c","A","f","e","e">>

FirstUpperRestAsGiven(k) == IF k = <<>> THEN <<>> ELSE <<UpperOf[k[1]]>> \o Tail(k)

FirstUpperRestLower(k) ==
    IF k = <<>> THEN <<>> ELSE <<UpperOf[k[1]]>> \o [i \in 1..(Len(k) - 1) |-> LowerOf[k[i + 1]]]

\* C6 as stated: the capitalized variant emitted, alone and with each of the
\* eight suffixes, is the keyword with its first character uppercased and the
\* rest as given; for "mcAfee" the result holds "McAfee" and "McAfee!".
C6_CapitalizedKeepsRest ==
    fn_pc = "passwords" =>
        /\ \A i \in DOMAIN fn_input :
              LET cap == FirstUpperRestAsGiven(strip(fn_input[i]))
              IN  /\ cap \in Range(fn_result)
                  /\ \A x \in PasswordSuffixes : cap \o <<x>> \in Range(fn_result)
        /\ fn_input = <<mcAfee>> =>
              /\ <<"M","c","A","f","e","e">> \in Range(fn_result)
              /\ <<"M","c","A","f","e","e","!">> \in Range(fn_result)

\* C6 amended: the capitalized variant emitted, alone and with each of the
\* eight suffixes, is the keyword with its first character uppercased and the
\* rest lowercased; for "mcAfee" the result holds "Mcafee" and "Mcafee!" and
\* neither "McAfee" nor "McAfee!".
C6_CapitalizedLowersRest ==
    fn_pc = "passwords" =>
        /\ \A i \in DOMAIN fn_input :
              LET cap == FirstUpperRestLower(strip(fn_input[i]))
              IN  /\ cap \in Range(fn_result)
                  /\ \A x \in PasswordSuffixes : cap \o <<x>> \in Range(fn_result)
        /\ fn_input = <<mcAfee>> =>
              /\ <<"M","c","a","f","e","e">> \in Range(fn_result)
              /\ <<"M","c","a","f","e","e","!">> \in Range(fn_result)
              /\ <<"M","c","A","f","e","e">> \notin Range(fn_result)
              /\ <<"M","c","A","f","e","e","!">> \notin Range(fn_result)

C6_Witness ==
    /\ fn_pc = "passwords"
    /\ fn_input = <<mcAfee>>
    /\ <<"M","c","a","f","e","e","!">> \in Range(fn_result)

\* C7: every candidate returned by generate_usernames and by
\* generate_passwords is a non-empty string, whatever the entries passed.
C7_CandidatesNonEmpty ==
    fn_pc \in {"usernames", "passwords"} =>
        \A i \in DOMAIN fn_result : fn_result[i] # <<>>

ExpectedUsernames(raw) ==
    LET trimmed == strip(raw)
        parts == split(trimmed)
        first == lower(parts[1])
        last == lower(parts[Len(parts)])
    IN  IF " " \in Range(trimmed)
        THEN { <<first[1]>> \o last, <<last[1]>> \o first,
               first \o <<".">> \o last, first, last }
        ELSE {lower(trimmed)}

\* C8: generate_usernames returns exactly the union over the names passed of
\* the five strings flast, lfirst, first.last, first, last for a trimmed name
\* holding a space, and of the lowercased name for one holding none;
\* ["John Smith"] gives jsmith, sjohn, john.smith, john, smith.
C8_UsernamesAreTheUnion ==
    fn_pc = "usernames" =>
        /\ Range(fn_result) = UNION {ExpectedUsernames(fn_input[i]) : i \in DOMAIN fn_input}
        /\ fn_input = << <<"J","o","h","n"," ","S","m","i","t","h">> >> =>
              Range(fn_result) = { <<"j","s","m","i","t","h">>,
                                   <<"s","j","o","h","n">>,
                                   <<"j","o","h","n",".","s","m","i","t","h">>,
                                   <<"j","o","h","n">>,
                                   <<"s","m","i","t","h">> }
        /\ \A i \in DOMAIN fn_input :
              LET parts == split(fn_input[i])
              IN  Len(parts) >= 3 =>
                    lower(parts[1]) \o <<".">> \o lower(parts[Len(parts)])
                        \in Range(fn_result)

C8_Witness ==
    /\ fn_pc = "usernames"
    /\ \E i \in DOMAIN fn_input : Len(split(fn_input[i])) >= 3
    /\ <<"l","a","n","n">> \in Range(fn_result)

(***************************************************************************)
(* Properties of wl_generator.main, checked under SpecWl                   *)
(***************************************************************************)
\* The opens made to save the passwords: all but the one that wrote the
\* usernames.
PasswordOpens == SelectSeq(opened, LAMBDA o : o # <<"usernames.txt", "w">>)

PasswordText == join(<<"\n">>, passwords)

PasswordsGenerated == wl_pc \in {"done", "traceback"} /\ passwords # <<>>

\* The files as they are when the passwords are about to be saved.
FilesBeforeSave ==
    IF usernames # <<>>
    THEN [InitialFiles EXCEPT !["usernames.txt"] =
             [exists |-> TRUE, data |-> join(<<"\n">>, usernames)]]
    ELSE InitialFiles

Overwritten ==
    /\ PasswordOpens = << <<"passwords.txt", "w">> >>
    /\ files["passwords.txt"] = [exists |-> TRUE, data |-> PasswordText]
    /\ \A p \in Paths \ {"passwords.txt"} : files[p] = FilesBeforeSave[p]

Appended ==
    /\ PasswordOpens = << <<file_path, "a">> >>
    /\ files[file_path] =
          [exists |-> TRUE,
           data |-> FilesBeforeSave[file_path].data \o <<"\n">> \o PasswordText]
    /\ \A p \in Paths \ {file_path} : files[p] = FilesBeforeSave[p]

====
